---- MODULE Spec2Model ----
(***************************************************************************)
(* TimeTable-Generator backend: the CSV importer (csv_to_sqlite.py), the   *)
(* data access layer (database_helper.py) and the HTTP handlers (route.py).*)
(*                                                                         *)
(* A text is a sequence of one-character strings; '' is << >>.  A CSV file *)
(* is the sequence of records csv.reader yields for it (the header first). *)
(* File stems, table names and column names are sequences of name tokens,  *)
(* the characters the code replaces (' ', '[', ']', '.') being tokens of   *)
(* their own.                                                              *)
(***************************************************************************)
EXTENDS Integers, Sequences, FiniteSets, TLC

VARIABLES
    files,   \* the CSV directory as the importer run reads it: stem -> records
    imp,     \* the importer process: pc, files left, its connection, rows done
    store,   \* timetable.db as committed on disk: exists, tables, indexes
    prev,    \* what the previous completed run left, when this run reads the same files
    api,     \* "down" before route.py is imported, "up" after
    db,      \* route.py's module-level db: NoneDb or the TimeTableDB handle
    req,     \* the last request handled
    resp     \* its response: status, body, and the DAL queries it executed

vars == <<files, imp, store, prev, api, db, req, resp>>

------------------------------------------------------------------------------
(* Bounds *)

\* data rows per generated CSV file
MaxRows == 2

------------------------------------------------------------------------------
(* Texts and names *)

Empty == << >>

Range(s) == {s[i] : i \in 1..Len(s)}

\* the name made of one token
N(tok) == <<tok>>

RECURSIVE StripPrefix(_)
\* str.replace('TimeTableDB.', ''): every occurrence, left to right
StripPrefix(s) ==
    IF s = << >> THEN << >>
    ELSE IF Len(s) >= 2 /\ s[1] = "TimeTableDB" /\ s[2] = "."
         THEN StripPrefix(SubSeq(s, 3, Len(s)))
         ELSE <<s[1]>> \o StripPrefix(Tail(s))

\* str.replace('.', '_')
ReplaceDots(s) == [i \in 1..Len(s) |-> IF s[i] = "." THEN "_" ELSE s[i]]

\* a mapping that leaves the dots of the stem in the table name
table_name_dots(stem) == StripPrefix(stem)

\* table_name = csv_file.stem.replace('TimeTableDB.', '').replace('.', '_')
table_name(stem) == ReplaceDots(StripPrefix(stem))

\* header.replace(' ', '_').replace('[', '_').replace(']', '_').replace('.', '_')
clean_header(h) ==
    [i \in 1..Len(h) |-> IF h[i] \in {" ", "[", "]", "."} THEN "_" ELSE h[i]]

\* the column names of lines 61-65, one per header
column_definitions(headers) ==
    [i \in 1..Len(headers) |-> clean_header(headers[i])]

------------------------------------------------------------------------------
(* The importer: csv_to_sqlite.create_database_from_csvs *)

NoTables == [t \in {} |-> 0]

NoStore == [exists |-> FALSE, tables |-> NoTables, indexes |-> {}]

EmptyStore == [exists |-> TRUE, tables |-> NoTables, indexes |-> {}]

NoConn == [open |-> FALSE, inTx |-> FALSE, tables |-> NoTables, indexes |-> {}]

NoPrev == [some |-> FALSE, tables |-> NoTables, indexes |-> {}]

\* an importer that leaves the existing database in place
RemoveExisting_keep(st) == st

\* if sqlite_db_path.exists(): sqlite_db_path.unlink()
RemoveExisting(st) == NoStore

RECURSIVE Pad(_, _)
\* while len(row) < len(headers): row.append('')
Pad(row, n) == IF Len(row) < n THEN Pad(Append(row, Empty), n) ELSE row

\* a normalisation that truncates and never pads
Normalize_nopad(row, n) == IF Len(row) > n THEN SubSeq(row, 1, n) ELSE row

\* the loop body of lines 50-57: pad, then truncate
Normalize(row, n) ==
    LET p == Pad(row, n)
    IN  IF Len(p) > n THEN SubSeq(p, 1, n) ELSE p

NormalizeAll(raw_rows, n) == [k \in 1..Len(raw_rows) |-> Normalize(raw_rows[k], n)]

\* a skip test that also skips the files with one data row
IsSkipped_one(raw_rows) == Len(raw_rows) <= 1

\* if not raw_rows: ... continue
IsSkipped(raw_rows) == raw_rows = << >>

HasDuplicates(s) == \E i, j \in 1..Len(s) : i < j /\ s[i] = s[j]

\* CREATE TABLE IF NOT EXISTS "t" (cols TEXT ...): the statement fails on no
\* column or on a repeated column name, and does nothing when the table exists
CreateFails(c, t, cols) ==
    t \notin DOMAIN c.tables /\ (cols = << >> \/ HasDuplicates(cols))

WithTable(tabs, t, tab) ==
    [x \in DOMAIN tabs \cup {t} |-> IF x = t THEN tab ELSE tabs[x]]

\* cursor.execute(create_table_sql): outside a transaction the statement is
\* committed at once (the sqlite3 module opens a transaction only before
\* INSERT/UPDATE/DELETE/REPLACE); inside one it is part of it
CreateTable(cs, t, cols) ==
    IF t \in DOMAIN cs.conn.tables THEN cs
    ELSE LET tab == [cols |-> cols, rows |-> << >>]
         IN  [conn  |-> [cs.conn EXCEPT !.tables = WithTable(@, t, tab)],
              store |-> IF cs.conn.inTx THEN cs.store
                        ELSE [cs.store EXCEPT !.tables = WithTable(@, t, tab)]]

\* INSERT INTO "t" VALUES (?, ..., ?) with len(headers) placeholders fails
\* when the table has another number of columns
InsertFails(c, t, n) == Len(c.tables[t].cols) # n

\* an executemany whose rows reach the disk at once (autocommit)
Insert_autocommit(cs, t, rows) ==
    [conn  |-> [cs.conn EXCEPT !.tables[t].rows = @ \o rows],
     store |-> IF t \in DOMAIN cs.store.tables
               THEN [cs.store EXCEPT !.tables[t].rows = @ \o rows]
               ELSE cs.store]

\* cursor.executemany(insert_sql, rows): opens the transaction, nothing is
\* committed
Insert(cs, t, rows) ==
    [conn  |-> [cs.conn EXCEPT !.inTx = TRUE, !.tables[t].rows = @ \o rows],
     store |-> cs.store]

\* the fixed indexes of lines 84-99, by table
IndexNames(t) ==
    IF t = N("courses") THEN {"idx_courses_courseId", "idx_courses_type"}
    ELSE IF t = N("instructors") THEN {"idx_instructors_name", "idx_instructors_role"}
    ELSE IF t = N("rooms") THEN {"idx_rooms_roomId", "idx_rooms_type"}
    ELSE IF t = N("timeslots") THEN {"idx_timeslots_day", "idx_timeslots_start"}
    ELSE {}

\* the CREATE INDEX IF NOT EXISTS statements of lines 84-99, inside the transaction
CreateIndexes(cs, t) ==
    [conn  |-> [cs.conn EXCEPT !.indexes = @ \cup IndexNames(t)],
     store |-> cs.store]

\* Whether the loop body raises on file f (and the run ends there)
Raises(c, lines) ==
    IF lines = << >> THEN TRUE                        \* next(csv_reader): StopIteration
    ELSE IF IsSkipped(Tail(lines)) THEN FALSE
    ELSE LET t    == c.t
             cols == column_definitions(lines[1])
         IN  IF CreateFails(c.conn, t, cols) THEN TRUE
             ELSE LET after == CreateTable([conn |-> c.conn, store |-> c.store],
                                           t, cols).conn
                  IN  InsertFails(after, t, Len(lines[1]))

\* One iteration of the loop of lines 32-99 that does not raise
LoopBody(cs, stem, lines) ==
    LET headers  == lines[1]
        raw_rows == Tail(lines)
        t        == table_name(stem)
    IN  IF IsSkipped(raw_rows) THEN cs
        ELSE CreateIndexes(
                 Insert(CreateTable(cs, t, column_definitions(headers)),
                        t, NormalizeAll(raw_rows, Len(headers))),
                 t)

\* What an iteration that raises has done before raising: the CREATE TABLE
\* may have run
RaisingBody(cs, stem, lines) ==
    IF lines = << >> THEN cs
    ELSE LET t    == table_name(stem)
             cols == column_definitions(lines[1])
         IN  IF CreateFails(cs.conn, t, cols) THEN cs
             ELSE CreateTable(cs, t, cols)

Idle == imp.pc \in {"idle", "done", "failed"}

\* lines 15-21: the run starts on directory d and removes the old database
Unlink(d) ==
    /\ Idle
    /\ files' = d
    /\ store' = IF store.exists THEN RemoveExisting(store) ELSE store
    /\ prev' = IF imp.pc = "done" /\ files = d
               THEN [some |-> TRUE, tables |-> store.tables, indexes |-> store.indexes]
               ELSE NoPrev
    /\ imp' = [pc |-> "unlinked", todo |-> {}, conn |-> NoConn,
               done |-> << >>, failedOn |-> << >>]
    /\ UNCHANGED <<api, db, req, resp>>

\* lines 24-30: sqlite3.connect creates the file when it is missing; glob
\* lists the CSV files (in no particular order)
Connect ==
    /\ imp.pc = "unlinked"
    /\ store' = [store EXCEPT !.exists = TRUE]
    /\ imp' = [imp EXCEPT !.pc = "loop",
                          !.todo = DOMAIN files,
                          !.conn = [open |-> TRUE, inTx |-> FALSE,
                                    tables |-> store.tables,
                                    indexes |-> store.indexes]]
    /\ UNCHANGED <<files, prev, api, db, req, resp>>

\* lines 32-99: one file of the loop, processed without an exception
ProcessFile ==
    /\ imp.pc = "loop"
    /\ \E stem \in imp.todo :
          LET lines == files[stem]
              cs    == [conn |-> imp.conn, store |-> store]
          IN  /\ ~Raises([conn |-> imp.conn, store |-> store, t |-> table_name(stem)],
                         lines)
              /\ LET out == LoopBody(cs, stem, lines)
                 IN  /\ store' = out.store
                     /\ imp' = [imp EXCEPT
                                 !.todo = @ \ {stem},
                                 !.conn = out.conn,
                                 !.done = IF IsSkipped(Tail(lines)) THEN @
                                          ELSE Append(@, stem)]
    /\ UNCHANGED <<files, prev, api, db, req, resp>>

\* an exception leaves create_database_from_csvs: the process ends, the
\* connection is dropped without a commit and the open transaction is lost
FailOnFile ==
    /\ imp.pc = "loop"
    /\ \E stem \in imp.todo :
          LET lines == files[stem]
              cs    == [conn |-> imp.conn, store |-> store]
          IN  /\ Raises([conn |-> imp.conn, store |-> store, t |-> table_name(stem)],
                        lines)
              /\ store' = RaisingBody(cs, stem, lines).store
              /\ imp' = [imp EXCEPT !.pc = "failed", !.conn = NoConn,
                                    !.failedOn = stem]
    /\ UNCHANGED <<files, prev, api, db, req, resp>>

\* lines 101-103: conn.commit(); conn.close()
Commit ==
    /\ imp.pc = "loop"
    /\ imp.todo = {}
    /\ store' = [store EXCEPT !.tables = imp.conn.tables,
                              !.indexes = imp.conn.indexes]
    /\ imp' = [imp EXCEPT !.pc = "done", !.conn = NoConn]
    /\ UNCHANGED <<files, prev, api, db, req, resp>>

------------------------------------------------------------------------------
(* Texts as Python and SQLite read them *)

\* the characters of the model in ASCII order
Ascii ==
    <<"%", "+", "-",
      "0", "1", "2", "3", "4", "5", "6", "7", "8", "9",
      "A", "B", "C", "D", "E", "F", "G", "H", "I", "J", "K", "L", "M",
      "N", "O", "P", "Q", "R", "S", "T", "U", "V", "W", "X", "Y", "Z",
      "_",
      "a", "b", "c", "d", "e", "f", "g", "h", "i", "j", "k", "l", "m",
      "n", "o", "p", "q", "r", "s", "t", "u", "v", "w", "x", "y", "z">>

Rank(c) == CHOOSE i \in 1..Len(Ascii) : Ascii[i] = c

IsDigit(c) == Rank(c) \in 4..13

DigitValue(c) == Rank(c) - 4

\* SQLite folds the ASCII letters for LIKE
Lower(c) == IF Rank(c) \in 14..39 THEN Ascii[Rank(c) + 27] ELSE c

RECURSIVE TextLeq(_, _)
\* the BINARY collation of ORDER BY: byte by byte, a prefix first
TextLeq(a, b) ==
    IF a = << >> THEN TRUE
    ELSE IF b = << >> THEN FALSE
    ELSE IF a[1] = b[1] THEN TextLeq(Tail(a), Tail(b))
    ELSE Rank(a[1]) < Rank(b[1])

RECURSIVE DigitsValue(_, _)
DigitsValue(s, acc) ==
    IF s = << >> THEN acc ELSE DigitsValue(Tail(s), 10 * acc + DigitValue(s[1]))

Unsigned(s) == IF s # << >> /\ s[1] \in {"+", "-"} THEN Tail(s) ELSE s

\* what int() accepts of the characters above: a sign, then digits only
IsIntLiteral(s) ==
    /\ Unsigned(s) # << >>
    /\ \A i \in 1..Len(Unsigned(s)) : IsDigit(Unsigned(s)[i])

\* int(s), for a literal
IntOf(s) ==
    IF s[1] = "-" THEN 0 - DigitsValue(Unsigned(s), 0) ELSE DigitsValue(Unsigned(s), 0)

RECURSIVE NatStr(_)
NatStr(n) == IF n < 10 THEN <<Ascii[n + 4]>> ELSE Append(NatStr(n \div 10), Ascii[(n % 10) + 4])

\* str(n)
StrOf(n) == IF n < 0 THEN <<"-">> \o NatStr(0 - n) ELSE NatStr(n)

RECURSIVE DigitPrefix(_)
DigitPrefix(s) ==
    IF s = << >> \/ ~IsDigit(s[1]) THEN << >> ELSE <<s[1]>> \o DigitPrefix(Tail(s))

\* CAST(text AS INTEGER): the longest integer prefix, 0 when there is none
CastInteger(s) ==
    LET digits == DigitPrefix(Unsigned(s))
        value  == DigitsValue(digits, 0)
    IN  IF s # << >> /\ s[1] = "-" THEN 0 - value ELSE value

RECURSIVE Like(_, _)
\* text LIKE pattern: % is any run of characters, _ any one character
Like(p, s) ==
    IF p = << >> THEN s = << >>
    ELSE IF p[1] = "%"
         THEN IF Like(Tail(p), s) THEN TRUE
              ELSE IF s = << >> THEN FALSE ELSE Like(p, Tail(s))
    ELSE IF s = << >> THEN FALSE
    ELSE IF p[1] = "_" \/ Lower(p[1]) = Lower(s[1]) THEN Like(Tail(p), Tail(s))
    ELSE FALSE

------------------------------------------------------------------------------
(* The data access layer: database_helper.TimeTableDB *)

\* Python's None and SQL's NULL, which no text equals
None == <<"None">>
Null == <<"NULL">>

\* a value an if statement takes as true
Truthy(v) == v # None /\ v # << >>

IndexOf(seq, x) == CHOOSE i \in 1..Len(seq) : seq[i] = x

\* dict(row)
RowDict(tab, k) == [c \in Range(tab.cols) |-> tab.rows[k][IndexOf(tab.cols, c)]]

Dicts(tab) == [k \in 1..Len(tab.rows) |-> RowDict(tab, k)]

\* the rows in the order of Leq, ties in the order given
Sorted(rows, Leq(_, _)) ==
    LET n == Len(rows)
        Before(j, k) == IF Leq(rows[j], rows[k])
                        THEN IF Leq(rows[k], rows[j]) THEN j < k ELSE TRUE
                        ELSE FALSE
        Place(k) == 1 + Cardinality({j \in 1..n : j # k /\ Before(j, k)})
    IN  [p \in 1..n |-> rows[CHOOSE k \in 1..n : Place(k) = p]]

\* the first name of cols the table lacks, << >> when it has them all
RECURSIVE FirstMissing(_, _)
FirstMissing(tab, cols) ==
    IF cols = << >> THEN << >>
    ELSE IF cols[1] \in Range(tab.cols) THEN FirstMissing(tab, Tail(cols))
    ELSE cols[1]

Failed(name, params, msg) ==
    [name |-> name, params |-> params, err |-> msg, rows |-> << >>]

\* execute_query on a SELECT ... FROM t WHERE ... ORDER BY ...: cols are the
\* columns the statement names, in the order SQLite resolves them
Select(tabs, name, params, t, cols, Where(_), Leq(_, _)) ==
    IF t \notin DOMAIN tabs THEN Failed(name, params, <<"no such table: ">> \o t)
    ELSE IF FirstMissing(tabs[t], cols) # << >>
         THEN Failed(name, params, <<"no such column: ">> \o FirstMissing(tabs[t], cols))
    ELSE [name |-> name, params |-> params, err |-> << >>,
          rows |-> Sorted(SelectSeq(Dicts(tabs[t]), Where), Leq)]

Courses == N("courses")
Instructors == N("instructors")
Rooms == N("rooms")
Timeslots == N("timeslots")

\* qualifiedCourses_k_
Slot(k) == <<"qualifiedCourses", "_", Ascii[k + 4], "_">>

\* the qualification slots of an instructor row
NumSlots == 6

Slots == [k \in 1..NumSlots |-> Slot(k - 1)]

AnyOrder(a, b) == TRUE

get_all_courses(tabs) ==
    Select(tabs, "get_all_courses", << >>, Courses, <<N("courseId")>>,
           LAMBDA r : TRUE,
           LAMBDA a, b : TextLeq(a[N("courseId")], b[N("courseId")]))

get_courses_by_type(tabs, course_type) ==
    Select(tabs, "get_courses_by_type", <<course_type>>, Courses,
           <<N("type"), N("courseId")>>,
           LAMBDA r : r[N("type")] = course_type,
           LAMBDA a, b : TextLeq(a[N("courseId")], b[N("courseId")]))

\* the parameter bound is str(semester), semester an int
get_courses_by_semester(tabs, semester) ==
    Select(tabs, "get_courses_by_semester", <<StrOf(semester)>>, Courses,
           <<N("semester"), N("courseId")>>,
           LAMBDA r : r[N("semester")] = StrOf(semester),
           LAMBDA a, b : TextLeq(a[N("courseId")], b[N("courseId")]))

get_courses_by_specialization(tabs, specialization) ==
    Select(tabs, "get_courses_by_specialization", <<specialization>>, Courses,
           <<N("specialization"), N("courseId")>>,
           LAMBDA r : r[N("specialization")] = specialization,
           LAMBDA a, b : TextLeq(a[N("courseId")], b[N("courseId")]))

\* the courseId index returns equal keys in insertion order
get_course_by_id_query(tabs, course_id) ==
    Select(tabs, "get_course_by_id", <<course_id>>, Courses, <<N("courseId")>>,
           LAMBDA r : r[N("courseId")] = course_id, AnyOrder)

get_all_instructors(tabs) ==
    Select(tabs, "get_all_instructors", << >>, Instructors, <<N("instructorName")>>,
           LAMBDA r : TRUE,
           LAMBDA a, b : TextLeq(a[N("instructorName")], b[N("instructorName")]))

get_instructors_by_role(tabs, role) ==
    Select(tabs, "get_instructors_by_role", <<role>>, Instructors,
           <<N("role"), N("instructorName")>>,
           LAMBDA r : r[N("role")] = role,
           LAMBDA a, b : TextLeq(a[N("instructorName")], b[N("instructorName")]))

get_instructor_by_name_query(tabs, name) ==
    Select(tabs, "get_instructor_by_name", <<name>>, Instructors,
           <<N("instructorName")>>,
           LAMBDA r : r[N("instructorName")] = name, AnyOrder)

\* a lookup that reads the first slot only
get_instructors_for_course_first(tabs, course_id) ==
    Select(tabs, "get_instructors_for_course", <<course_id>>, Instructors,
           Slots \o <<N("instructorName")>>,
           LAMBDA r : r[Slot(0)] = course_id,
           LAMBDA a, b : TextLeq(a[N("instructorName")], b[N("instructorName")]))

get_instructors_for_course(tabs, course_id) ==
    Select(tabs, "get_instructors_for_course", <<course_id>>, Instructors,
           Slots \o <<N("instructorName")>>,
           LAMBDA r : \/ r[Slot(0)] = course_id
                      \/ r[Slot(1)] = course_id
                      \/ r[Slot(2)] = course_id
                      \/ r[Slot(3)] = course_id
                      \/ r[Slot(4)] = course_id
                      \/ r[Slot(5)] = course_id,
           LAMBDA a, b : TextLeq(a[N("instructorName")], b[N("instructorName")]))

get_all_rooms(tabs) ==
    Select(tabs, "get_all_rooms", << >>, Rooms, <<N("roomId")>>,
           LAMBDA r : TRUE,
           LAMBDA a, b : TextLeq(a[N("roomId")], b[N("roomId")]))

get_rooms_by_type(tabs, room_type) ==
    Select(tabs, "get_rooms_by_type", <<room_type>>, Rooms,
           <<N("type"), N("roomId")>>,
           LAMBDA r : r[N("type")] = room_type,
           LAMBDA a, b : TextLeq(a[N("roomId")], b[N("roomId")]))

\* min_capacity an int, bound as an integer
get_rooms_by_capacity(tabs, min_capacity) ==
    Select(tabs, "get_rooms_by_capacity", <<StrOf(min_capacity)>>, Rooms,
           <<N("capacity")>>,
           LAMBDA r : CastInteger(r[N("capacity")]) >= min_capacity,
           LAMBDA a, b : CastInteger(a[N("capacity")]) <= CastInteger(b[N("capacity")]))

get_lab_rooms_by_type(tabs, lab_type) ==
    Select(tabs, "get_lab_rooms_by_type", <<lab_type>>, Rooms,
           <<N("type"), N("labType"), N("roomId")>>,
           LAMBDA r : r[N("type")] = <<"L", "a", "b">> /\ r[N("labType")] = lab_type,
           LAMBDA a, b : TextLeq(a[N("roomId")], b[N("roomId")]))

DayTimeLeq(a, b) ==
    IF a[N("day")] = b[N("day")] THEN TextLeq(a[N("startTime")], b[N("startTime")])
    ELSE TextLeq(a[N("day")], b[N("day")])

get_all_timeslots(tabs) ==
    Select(tabs, "get_all_timeslots", << >>, Timeslots, <<N("day"), N("startTime")>>,
           LAMBDA r : TRUE, DayTimeLeq)

get_timeslots_by_day(tabs, day) ==
    Select(tabs, "get_timeslots_by_day", <<day>>, Timeslots,
           <<N("day"), N("startTime")>>,
           LAMBDA r : r[N("day")] = day,
           LAMBDA a, b : TextLeq(a[N("startTime")], b[N("startTime")]))

\* search_pattern = f"%{search_term}%"
search_courses(tabs, search_term) ==
    LET search_pattern == <<"%">> \o search_term \o <<"%">>
    IN  Select(tabs, "search_courses", <<search_pattern, search_pattern>>, Courses,
               <<N("courseId"), N("courseName")>>,
               LAMBDA r : \/ Like(search_pattern, r[N("courseId")])
                          \/ Like(search_pattern, r[N("courseName")]),
               LAMBDA a, b : TextLeq(a[N("courseId")], b[N("courseId")]))

\* SELECT COUNT(*) as count FROM {table}
count_query(tabs, t) ==
    IF t \notin DOMAIN tabs
    THEN Failed("get_table_stats", <<t>>, <<"no such table: ">> \o t)
    ELSE [name |-> "get_table_stats", params |-> <<t>>, err |-> << >>,
          rows |-> <<[count |-> Len(tabs[t].rows)]>>]

StatTables == <<Courses, Instructors, Rooms, Timeslots>>

RECURSIVE StatQueries(_, _)
\* the queries get_table_stats runs on tables ts: it stops at the first that fails
StatQueries(tabs, ts) ==
    IF ts = << >> THEN << >>
    ELSE LET q == count_query(tabs, ts[1])
         IN  IF q.err # << >> THEN <<q>> ELSE <<q>> \o StatQueries(tabs, Tail(ts))

CourseCols == <<N("courseId"), N("courseName"), N("type"), N("semester"),
                N("specialization")>>

JoinCols == CourseCols \o <<N("instructorName"), N("role")>>

Qualified(i, course_id) == \E k \in 1..NumSlots : i[Slots[k]] = course_id

\* a row of the join: the course's columns, the instructor's or NULLs
JoinRow(c, i) ==
    [col \in Range(JoinCols) |->
        IF col \in Range(CourseCols) THEN c[col]
        ELSE IF i = Null THEN Null ELSE i[col]]

\* an inner join: a course nobody is qualified for gives no row
JoinRows_inner(cs, is) ==
    LET pairs == { <<c, i>> \in (1..Len(cs)) \X (1..Len(is)) :
                      Qualified(is[i], cs[c][N("courseId")]) }
        n     == Cardinality(pairs)
        at(k) == CHOOSE p \in pairs :
                     Cardinality({q \in pairs : q[1] < p[1] \/ (q[1] = p[1] /\ q[2] <= p[2])}) = k
    IN  [k \in 1..n |-> JoinRow(cs[at(k)[1]], is[at(k)[2]])]

RECURSIVE JoinRows(_, _)
\* courses LEFT JOIN instructors ON (slot 0 = courseId OR ... OR slot 5 = courseId)
JoinRows(cs, is) ==
    IF cs = << >> THEN << >>
    ELSE LET matches == SelectSeq(is, LAMBDA i : Qualified(i, cs[1][N("courseId")]))
         IN  (IF matches = << >> THEN <<JoinRow(cs[1], Null)>>
              ELSE [k \in 1..Len(matches) |-> JoinRow(cs[1], matches[k])])
                 \o JoinRows(Tail(cs), is)

RECURSIVE Distinct(_)
\* SELECT DISTINCT: each row once
Distinct(rows) ==
    IF rows = << >> THEN << >>
    ELSE LET rest == Distinct(SubSeq(rows, 1, Len(rows) - 1))
             last == rows[Len(rows)]
         IN  IF last \in Range(rest) THEN rest ELSE Append(rest, last)

\* ORDER BY c.courseId, i.instructorName: NULL sorts first
JoinLeq(a, b) ==
    IF a[N("courseId")] # b[N("courseId")]
    THEN TextLeq(a[N("courseId")], b[N("courseId")])
    ELSE IF a[N("instructorName")] = Null THEN TRUE
    ELSE IF b[N("instructorName")] = Null THEN FALSE
    ELSE TextLeq(a[N("instructorName")], b[N("instructorName")])

get_courses_with_instructors_query(tabs) ==
    LET name == "get_courses_with_instructors"
    IN  IF Courses \notin DOMAIN tabs
        THEN Failed(name, << >>, <<"no such table: ">> \o Courses)
        ELSE IF Instructors \notin DOMAIN tabs
        THEN Failed(name, << >>, <<"no such table: ">> \o Instructors)
        ELSE IF FirstMissing(tabs[Courses], CourseCols) # << >>
        THEN Failed(name, << >>, <<"no such column: ", "c", ".">>
                                     \o FirstMissing(tabs[Courses], CourseCols))
        ELSE IF FirstMissing(tabs[Instructors],
                             <<N("instructorName"), N("role")>> \o Slots) # << >>
        THEN Failed(name, << >>, <<"no such column: ", "i", ".">>
                                     \o FirstMissing(tabs[Instructors],
                                            <<N("instructorName"), N("role")>> \o Slots))
        ELSE [name |-> name, params |-> << >>, err |-> << >>,
              rows |-> Sorted(Distinct(JoinRows(Dicts(tabs[Courses]),
                                                Dicts(tabs[Instructors]))),
                              JoinLeq)]

------------------------------------------------------------------------------
(* The HTTP handlers: route.py *)

\* a query a handler executed: the DAL method and the parameters it bound
Executed(q) == [name |-> q.name, params |-> q.params]

ErrorReply(status, msg, queries) ==
    [status |-> status, body |-> [error |-> msg], queries |-> queries]

\* jsonify({'success': True, 'data': rows, 'count': len(rows)}), or the
\* except branch: jsonify({'error': str(e)}), 500
ListReply(q) ==
    IF q.err # << >> THEN ErrorReply(500, q.err, <<Executed(q)>>)
    ELSE [status |-> 200,
          body |-> [success |-> TRUE, data |-> q.rows, count |-> Len(q.rows)],
          queries |-> <<Executed(q)>>]

\* results[0] if results else None, then 200 with the record or 404
ItemReply(q, notFound) ==
    IF q.err # << >> THEN ErrorReply(500, q.err, <<Executed(q)>>)
    ELSE IF q.rows # << >>
    THEN [status |-> 200, body |-> [success |-> TRUE, data |-> q.rows[1]],
          queries |-> <<Executed(q)>>]
    ELSE ErrorReply(404, <<notFound>>, <<Executed(q)>>)

\* str(e) of the ValueError int(v) raises
IntError(v) == <<"invalid literal for int() with base 10: '">> \o v \o <<"'">>

\* a check that looks for the database file on every request
Unavailable_recheck == ~store.exists

\* if db is None
Unavailable == db = "None"

NotAvailable == ErrorReply(500, <<"Database not available">>, << >>)

\* a dispatch that tests type before search
get_courses_type_first(tabs, a) ==
    IF Unavailable THEN NotAvailable
    ELSE IF Truthy(a.type) THEN ListReply(get_courses_by_type(tabs, a.type))
    ELSE IF Truthy(a.search) THEN ListReply(search_courses(tabs, a.search))
    ELSE ListReply(get_all_courses(tabs))

get_courses(tabs, a) ==
    IF Unavailable THEN NotAvailable
    ELSE IF Truthy(a.search) THEN ListReply(search_courses(tabs, a.search))
    ELSE IF Truthy(a.type) THEN ListReply(get_courses_by_type(tabs, a.type))
    ELSE IF Truthy(a.semester)
         THEN IF IsIntLiteral(a.semester)
              THEN ListReply(get_courses_by_semester(tabs, IntOf(a.semester)))
              ELSE ErrorReply(500, IntError(a.semester), << >>)
    ELSE IF Truthy(a.specialization)
         THEN ListReply(get_courses_by_specialization(tabs, a.specialization))
    ELSE ListReply(get_all_courses(tabs))

\* a lookup that answers 200 with no record for an unknown id
get_course_no404(tabs, course_id) ==
    IF Unavailable THEN NotAvailable
    ELSE ListReply(get_course_by_id_query(tabs, course_id))

get_course(tabs, course_id) ==
    IF Unavailable THEN NotAvailable
    ELSE ItemReply(get_course_by_id_query(tabs, course_id), "Course not found")

get_instructors(tabs, a) ==
    IF Unavailable THEN NotAvailable
    ELSE IF Truthy(a.course)
         THEN ListReply(get_instructors_for_course(tabs, a.course))
    ELSE IF Truthy(a.role) THEN ListReply(get_instructors_by_role(tabs, a.role))
    ELSE ListReply(get_all_instructors(tabs))

get_instructor(tabs, instructor_name) ==
    IF Unavailable THEN NotAvailable
    ELSE ItemReply(get_instructor_by_name_query(tabs, instructor_name),
                   "Instructor not found")

\* a handler that lets the ValueError of int() escape
get_rooms_uncaught(tabs, a) ==
    IF Unavailable THEN NotAvailable
    ELSE IF Truthy(a.lab_type) THEN ListReply(get_lab_rooms_by_type(tabs, a.lab_type))
    ELSE IF Truthy(a.min_capacity)
         THEN IF IsIntLiteral(a.min_capacity)
              THEN ListReply(get_rooms_by_capacity(tabs, IntOf(a.min_capacity)))
              ELSE [status |-> 0, body |-> [raised |-> IntError(a.min_capacity)],
                    queries |-> << >>]
    ELSE IF Truthy(a.type) THEN ListReply(get_rooms_by_type(tabs, a.type))
    ELSE ListReply(get_all_rooms(tabs))

get_rooms(tabs, a) ==
    IF Unavailable THEN NotAvailable
    ELSE IF Truthy(a.lab_type) THEN ListReply(get_lab_rooms_by_type(tabs, a.lab_type))
    ELSE IF Truthy(a.min_capacity)
         THEN IF IsIntLiteral(a.min_capacity)
              THEN ListReply(get_rooms_by_capacity(tabs, IntOf(a.min_capacity)))
              ELSE ErrorReply(500, IntError(a.min_capacity), << >>)
    ELSE IF Truthy(a.type) THEN ListReply(get_rooms_by_type(tabs, a.type))
    ELSE ListReply(get_all_rooms(tabs))

get_timeslots(tabs, a) ==
    IF Unavailable THEN NotAvailable
    ELSE IF Truthy(a.day) THEN ListReply(get_timeslots_by_day(tabs, a.day))
    ELSE ListReply(get_all_timeslots(tabs))

get_courses_with_instructors(tabs) ==
    IF Unavailable THEN NotAvailable
    ELSE ListReply(get_courses_with_instructors_query(tabs))

\* get_table_stats: the counts by table, or the error of the query that failed
get_table_stats(tabs) ==
    LET qs   == StatQueries(tabs, StatTables)
        last == qs[Len(qs)]
    IN  [err |-> last.err,
         stats |-> [k \in 1..Len(qs) |-> qs[k].rows],
         queries |-> [k \in 1..Len(qs) |-> Executed(qs[k])]]

StatsOf(r) == [k \in 1..Len(StatTables) |-> <<StatTables[k], r.stats[k][1].count>>]

get_stats(tabs) ==
    IF Unavailable THEN NotAvailable
    ELSE LET r == get_table_stats(tabs)
         IN  IF r.err # << >> THEN ErrorReply(500, r.err, r.queries)
             ELSE [status |-> 200, body |-> [success |-> TRUE, data |-> StatsOf(r)],
                   queries |-> r.queries]

\* a health check that does not look at db and counts straight away
health_check_counts(tabs) ==
    LET r == get_table_stats(tabs)
    IN  IF r.err # << >>
        THEN [status |-> 500,
              body |-> [status |-> "error", message |-> <<"Database error: ">> \o r.err],
              queries |-> r.queries]
        ELSE [status |-> 200,
              body |-> [status |-> "healthy", database |-> "connected",
                        stats |-> StatsOf(r)],
              queries |-> r.queries]

health_check(tabs) ==
    IF Unavailable
    THEN [status |-> 500,
          body |-> [status |-> "error",
                    message |-> <<"Database not available. Please run csv_to_sqlite.py first.">>],
          queries |-> << >>]
    ELSE LET r == get_table_stats(tabs)
         IN  IF r.err # << >>
             THEN [status |-> 500,
                   body |-> [status |-> "error",
                             message |-> <<"Database error: ">> \o r.err],
                   queries |-> r.queries]
             ELSE [status |-> 200,
                   body |-> [status |-> "healthy", database |-> "connected",
                             stats |-> StatsOf(r)],
                   queries |-> r.queries]

\* a connection that writes: the tables are emptied (execute_update)
Connected_update(st) == [exists |-> TRUE, tables |-> NoTables, indexes |-> {}]

\* get_connection: sqlite3.connect(self.db_path) creates the file when it is
\* missing; execute_query only reads
Connected(st) == [st EXCEPT !.exists = TRUE]

\* the store after a handler that executed the queries qs
AfterQueries(st, qs) == IF qs = << >> THEN st ELSE Connected(st)

NoRequest == [endpoint |-> "none"]

NoResponse == [status |-> 0, body |-> [none |-> TRUE], queries |-> << >>]

\* the response has been sent: the handler keeps nothing of the request
Return ==
    /\ req # NoRequest
    /\ req' = NoRequest
    /\ resp' = NoResponse
    /\ UNCHANGED <<files, imp, store, prev, api, db>>

\* the module is imported: get_db() raises FileNotFoundError when the file is
\* missing and db is left None
ApiStart ==
    /\ api = "down"
    /\ api' = "up"
    /\ db' = IF store.exists THEN "TimeTableDB" ELSE "None"
    /\ UNCHANGED <<files, imp, store, prev, req, resp>>

\* the routes of the blueprint: the handler of each endpoint, run on the
\* tables its connection reads
Respond(tabs, r) ==
    IF r.endpoint = "/health" THEN health_check(tabs)
    ELSE IF r.endpoint = "/courses" THEN get_courses(tabs, r.args)
    ELSE IF r.endpoint = "/courses/{id}" THEN get_course(tabs, r.id)
    ELSE IF r.endpoint = "/instructors" THEN get_instructors(tabs, r.args)
    ELSE IF r.endpoint = "/instructors/{name}" THEN get_instructor(tabs, r.id)
    ELSE IF r.endpoint = "/rooms" THEN get_rooms(tabs, r.args)
    ELSE IF r.endpoint = "/timeslots" THEN get_timeslots(tabs, r.args)
    ELSE IF r.endpoint = "/courses-with-instructors" THEN get_courses_with_instructors(tabs)
    ELSE get_stats(tabs)

\* a handler runs from the request to its return statement
Handle(r) ==
    /\ api = "up"
    /\ req = NoRequest
    /\ req' = r
    /\ resp' = Respond(store.tables, r)
    /\ store' = AfterQueries(store, Respond(store.tables, r).queries)
    /\ UNCHANGED <<files, imp, prev, api, db>>

------------------------------------------------------------------------------
(* Input directories of the importer specification *)

H2 == <<N("a"), N("b")>>

\* data rows of 0 to 3 fields, each field naming its position
RowShapes == { << >>, <<<<"1">>>>, <<<<"1">>, <<"2">>>>, <<<<"1">>, <<"2">>, <<"3">>>> }

RECURSIVE RowSeqs(_)
RowSeqs(n) ==
    IF n = 0 THEN { << >> }
    ELSE LET shorter == RowSeqs(n - 1)
         IN  shorter \cup { Append(s, r) : s \in {x \in shorter : Len(x) = n - 1},
                                           r \in RowShapes }

\* the generated file: header a,b and up to MaxRows data rows of any shape
RichFiles == { <<H2>> \o rows : rows \in RowSeqs(MaxRows) } \cup { << >> }

\* the file that shares its table: one record under the same header, or a
\* header of another width
SharingFiles ==
    { <<H2, <<<<"7">>, <<"8">>>>>>,
      <<<<N("a")>>, <<<<"9">>>>>> }

\* the third file: zero bytes, header only, a blank header line, headers that
\* clean to one name, headers to clean with a record too long
OtherFiles ==
    { << >>,
      <<H2>>,
      << << >>, <<<<"7">>>> >>,
      <<<<<<"a", " ", "b">>, <<"a", ".", "b">>>>, <<<<"7">>>>>>,
      <<<<<<"q", "[", "0", "]">>, N("r")>>, <<<<"5">>, <<"6">>, <<"7">>>>>> }

StemA == <<"TimeTableDB", ".", "courses">>
StemB == <<"courses">>
StemC == <<"TimeTableDB", ".", "rooms", ".", "v2">>

Dir(fa, fb, fc) ==
    LET present == (IF fa.here THEN {StemA} ELSE {})
                     \cup (IF fb.here THEN {StemB} ELSE {})
                     \cup (IF fc.here THEN {StemC} ELSE {})
    IN  [s \in present |-> IF s = StemA THEN fa.lines
                           ELSE IF s = StemB THEN fb.lines ELSE fc.lines]

Maybe(S) == { [here |-> TRUE, lines |-> l] : l \in S } \cup { [here |-> FALSE, lines |-> << >>] }

ImportDirs ==
    { Dir(fa, fb, fc) : fa \in Maybe(RichFiles), fb \in Maybe(SharingFiles),
                        fc \in Maybe(OtherFiles) }

------------------------------------------------------------------------------
(* Requests and input directories of the API specification *)

CS1 == <<"C", "S", "1">>
CS2 == <<"C", "S", "2">>
CS3 == <<"C", "S", "3">>
CS9 == <<"C", "S", "9">>
Lec == <<"L", "e", "c">>
Lab == <<"L", "a", "b">>
AI == <<"A", "I">>
Prof == <<"P", "r", "o", "f">>
Eng == <<"E", "n", "g">>
Al == <<"A", "l">>
Bo == <<"B", "o">>
Cy == <<"C", "y">>
Zed == <<"Z", "e", "d">>
Mon == <<"M", "o", "n">>
Sun == <<"S", "u", "n">>
Ph == <<"P", "h">>

CourseArgs ==
    [search : {None, << >>, <<"a">>},
     type : {None, Lab},
     semester : {None, << >>, <<"0", "1">>, <<"x">>},
     specialization : {None, AI}]

InstructorArgs == [course : {None, << >>, CS1, CS2}, role : {None, << >>, Prof}]

RoomArgs ==
    [lab_type : {None, << >>, Ph},
     min_capacity : {None, <<"3", "0">>, <<"x">>},
     type : {None, Lab}]

TimeslotArgs == [day : {None, << >>, Mon}]

CourseIds == {CS1, CS2, CS9}

InstructorNames == {Al, Zed}

GetHealth == Handle([endpoint |-> "/health"])

GetCourses == \E a \in CourseArgs : Handle([endpoint |-> "/courses", args |-> a])

GetCourse == \E id \in CourseIds : Handle([endpoint |-> "/courses/{id}", id |-> id])

GetInstructors == \E a \in InstructorArgs : Handle([endpoint |-> "/instructors", args |-> a])

GetInstructor ==
    \E n \in InstructorNames : Handle([endpoint |-> "/instructors/{name}", id |-> n])

GetRooms == \E a \in RoomArgs : Handle([endpoint |-> "/rooms", args |-> a])

GetTimeslots == \E a \in TimeslotArgs : Handle([endpoint |-> "/timeslots", args |-> a])

GetCoursesWithInstructors == Handle([endpoint |-> "/courses-with-instructors"])

GetStats == Handle([endpoint |-> "/stats"])

SlotHeader(k) == <<"qualifiedCourses", "[", Ascii[k + 4], "]">>

CourseHeader == CourseCols

InstructorHeader ==
    <<N("instructorName"), N("role")>> \o [k \in 1..NumSlots |-> SlotHeader(k - 1)]

RoomHeader == <<N("roomId"), N("type"), N("capacity"), N("labType")>>

TimeslotHeader == <<N("_id"), N("day"), N("startTime"), N("endTime")>>

StemCourses == <<"TimeTableDB", ".", "courses">>
StemInstructors == <<"TimeTableDB", ".", "instructors">>
StemRooms == <<"TimeTableDB", ".", "rooms">>
StemTimeslots == <<"TimeTableDB", ".", "timeslots">>

\* the four files as the repository ships them, in small: unsorted rows, short
\* records, a course in several slots of an instructor, a course nobody teaches
DirGood ==
    [s \in {StemCourses, StemInstructors, StemRooms, StemTimeslots} |->
        IF s = StemCourses
        THEN <<CourseHeader,
               <<CS2, <<"D", "b">>, Lab, <<"2">>>>,
               <<CS1, <<"A", "i">>, Lec, <<"1">>, AI>>,
               <<CS3, <<"O", "s">>, Lec, <<"0", "1">>, AI>>>>
        ELSE IF s = StemInstructors
        THEN <<InstructorHeader,
               <<Bo, Eng, CS2, << >>, << >>, << >>, << >>, CS1>>,
               <<Al, Prof, CS1, CS1>>,
               <<Cy, Prof, CS2, CS2, CS2, CS2, CS2, CS2>>>>
        ELSE IF s = StemRooms
        THEN <<RoomHeader,
               <<<<"R", "2">>, Lec, <<"1", "0", "0">>>>,
               <<<<"R", "3">>, Lab, <<"3", "a">>, Ph>>,
               <<<<"R", "1">>, Lab, <<"3", "0">>, Ph>>>>
        ELSE <<TimeslotHeader,
               <<<<"T", "1">>, Mon, <<"0", "9">>, <<"1", "0">>>>,
               <<<<"T", "2">>, Mon, <<"0", "8">>, <<"0", "9">>>>>>]

\* files that import but are not what the API expects: a repeated course id
\* and a repeated instructor record, and no rooms and timeslots file
DirOdd ==
    [s \in {StemCourses, StemInstructors} |->
        IF s = StemCourses
        THEN <<CourseHeader,
               <<CS1, <<"Z", "z">>, Lab, <<"1">>, AI>>,
               <<CS1, <<"A", "i">>, Lec, <<"1">>, AI>>>>
        ELSE <<InstructorHeader,
               <<Al, Prof, CS1>>,
               <<Al, Prof, CS1>>>>]

\* a directory whose instructors file has zero bytes: the run fails on it
DirBroken ==
    [s \in {StemCourses, StemInstructors} |->
        IF s = StemCourses
        THEN <<CourseHeader, <<CS1, <<"A", "i">>, Lec, <<"1">>, AI>>>>
        ELSE << >>]

ApiDirs == {DirGood, DirOdd, DirBroken}

------------------------------------------------------------------------------

Init ==
    /\ files = [s \in {} |-> << >>]
    /\ imp = [pc |-> "idle", todo |-> {}, conn |-> NoConn, done |-> << >>,
              failedOn |-> << >>]
    /\ store = NoStore
    /\ prev = NoPrev
    /\ api = "down"
    /\ db = "None"
    /\ req = NoRequest
    /\ resp = NoResponse

NextImport ==
    \/ \E d \in ImportDirs : Unlink(d)
    \/ Connect
    \/ ProcessFile
    \/ FailOnFile
    \/ Commit

SpecImport == Init /\ [][NextImport]_vars

Next ==
    \/ \E d \in ApiDirs : Unlink(d)
    \/ Connect
    \/ ProcessFile
    \/ FailOnFile
    \/ Commit
    \/ ApiStart
    \/ GetHealth
    \/ GetCourses
    \/ GetCourse
    \/ GetInstructors
    \/ GetInstructor
    \/ GetRooms
    \/ GetTimeslots
    \/ GetCoursesWithInstructors
    \/ GetStats
    \/ Return

Spec == Init /\ [][Next]_vars

------------------------------------------------------------------------------
(* Properties of the importer *)

DataRows(stem) == Tail(files[stem])

Populated == { s \in DOMAIN files : Len(files[s]) >= 2 }

RowCount(tabs) == [t \in DOMAIN tabs |-> Len(tabs[t].rows)]

Occurrences(rows, r) == Cardinality({k \in 1..Len(rows) : rows[k] = r})

\* the same rows, each as many times, in any order
SameRows(r1, r2) ==
    /\ Len(r1) = Len(r2)
    /\ \A r \in Range(r1) \cup Range(r2) : Occurrences(r1, r) = Occurrences(r2, r)

SameContent(t1, t2) ==
    /\ DOMAIN t1 = DOMAIN t2
    /\ \A t \in DOMAIN t1 : t1[t].cols = t2[t].cols /\ SameRows(t1[t].rows, t2[t].rows)

RECURSIVE InputRows(_, _)
\* the data rows the files S hold for table t
InputRows(t, S) ==
    IF S = {} THEN 0
    ELSE LET s == CHOOSE x \in S : TRUE
         IN  (IF table_name(s) = t THEN Len(DataRows(s)) ELSE 0)
                 + InputRows(t, S \ {s})

\* the table a file of the input directories is named after
NamedAfter(stem) ==
    IF stem = StemC THEN <<"rooms", "_", "v2">> ELSE <<"courses">>

\* C6 as stated: after a run that failed on a later file, the table of every
\* earlier processed file is in the store with that file's rows.
C6_EarlierFilesKept ==
    imp.pc = "failed" =>
        \A i \in 1..Len(imp.done) :
            /\ table_name(imp.done[i]) \in DOMAIN store.tables
            /\ Len(store.tables[table_name(imp.done[i])].rows)
                   >= Len(DataRows(imp.done[i]))

\* C6 amended: the importer commits once, after the last file.  After a run
\* that failed, the store holds no row and no index; the only table left is
\* the one created for the first file that had data rows (it was created
\* before the transaction opened), and the tables of the other earlier files
\* are rolled back.
C6_FailedRunKeepsNoRows ==
    imp.pc = "failed" =>
        /\ store.exists
        /\ store.indexes = {}
        /\ \A t \in DOMAIN store.tables : store.tables[t].rows = << >>
        /\ DOMAIN store.tables =
               IF imp.done = << >> THEN {} ELSE {table_name(imp.done[1])}

\* a failed run after two files with data rows, of two tables, were processed
C6_Witness ==
    /\ imp.pc = "failed"
    /\ Len(imp.done) >= 2
    /\ \E i \in 1..Len(imp.done) : table_name(imp.done[i]) # table_name(imp.done[1])

\* C7: a completed run leaves the tables of its input files and nothing else,
\* whatever store was there before: a table per file with data rows, holding
\* as many rows as those files have; and a run that follows a completed run on
\* the same files leaves the same tables, columns, rows (each as many times)
\* and indexes.
C7_Idempotent ==
    imp.pc = "done" =>
        /\ DOMAIN store.tables = { table_name(s) : s \in Populated }
        /\ \A t \in DOMAIN store.tables :
              Len(store.tables[t].rows) = InputRows(t, Populated)
        /\ prev.some =>
              /\ SameContent(store.tables, prev.tables)
              /\ store.indexes = prev.indexes

\* a second completed run on the same files, two of which fill one table
C7_Witness ==
    /\ imp.pc = "done"
    /\ prev.some
    /\ \E t \in DOMAIN store.tables : Len(store.tables[t].rows) >= 2
    /\ {StemA, StemB} \subseteq Populated

\* the record a data row is stored as: its fields in order, ''
\* for the missing trailing columns, the fields beyond the header dropped
StoredAs(row, n) == [i \in 1..n |-> IF i <= Len(row) THEN row[i] ELSE Empty]

RECURSIVE RowsOf(_, _)
\* the stored rows of table t: those of the processed files of
\* that table, in the order processed
RowsOf(t, stems) ==
    IF stems = << >> THEN << >>
    ELSE LET s == stems[1]
         IN  (IF table_name(s) = t
              THEN [k \in 1..Len(DataRows(s)) |-> StoredAs(DataRows(s)[k], Len(files[s][1]))]
              ELSE << >>) \o RowsOf(t, Tail(stems))

WellShaped(tabs) ==
    \A t \in DOMAIN tabs :
        \A k \in 1..Len(tabs[t].rows) : Len(tabs[t].rows[k]) = Len(tabs[t].cols)

\* C8: every stored row has as many columns as its table; the rows the
\* importer has inserted are the data rows of the processed files, none
\* skipped, each with its fields in order, '' for the missing trailing columns
\* and the fields beyond the header dropped; and a run fails only on a file
\* with no header line, with no or a repeated column name, or with another
\* number of columns than the table it shares, never on a row's length.
C8_RowsNormalized ==
    /\ WellShaped(store.tables)
    /\ WellShaped(imp.conn.tables)
    /\ imp.pc = "loop" =>
          \A t \in DOMAIN imp.conn.tables : imp.conn.tables[t].rows = RowsOf(t, imp.done)
    /\ imp.pc = "done" =>
          \A t \in DOMAIN store.tables : store.tables[t].rows = RowsOf(t, imp.done)
    /\ imp.pc = "failed" =>
          LET lines == files[imp.failedOn]
          IN  \/ lines = << >>
              \/ lines[1] = << >>
              \/ HasDuplicates(column_definitions(lines[1]))
              \/ \E i \in 1..Len(imp.done) :
                    /\ table_name(imp.done[i]) = table_name(imp.failedOn)
                    /\ Len(files[imp.done[i]][1]) # Len(lines[1])

\* a completed run on a file with a short and a long data row, both stored
C8_Witness ==
    /\ imp.pc = "done"
    /\ \E s \in Range(imp.done) :
          /\ \E k \in 1..Len(DataRows(s)) : Len(DataRows(s)[k]) < Len(files[s][1])
          /\ \E k \in 1..Len(DataRows(s)) : Len(DataRows(s)[k]) > Len(files[s][1])
          /\ Len(store.tables[table_name(s)].rows) >= Len(DataRows(s))

\* C9 as stated: after a completed run every readable file, also one with a
\* header and no data rows, has its table in the store.
C9_TablePerFile ==
    imp.pc = "done" =>
        \A s \in DOMAIN files : NamedAfter(s) \in DOMAIN store.tables

\* C9 amended: after a completed run the store holds the table named after
\* each file that has at least one data row, and no other table; a file with
\* a header and no data rows is skipped and gets no table of its own.
C9_TablePerFileWithRows ==
    imp.pc = "done" =>
        /\ \A s \in Populated : NamedAfter(s) \in DOMAIN store.tables
        /\ \A t \in DOMAIN store.tables : \E s \in Populated : t = NamedAfter(s)

\* a completed run on two files with data rows and a third with a header only
C9_Witness ==
    /\ imp.pc = "done"
    /\ StemA \in Populated
    /\ StemC \in DOMAIN files
    /\ files[StemC] = <<H2>>
    /\ N("courses") \in DOMAIN store.tables

------------------------------------------------------------------------------
(* Properties of the API *)

DataEndpoints ==
    {"/courses", "/courses/{id}", "/instructors", "/instructors/{name}", "/rooms",
     "/timeslots", "/courses-with-instructors", "/stats"}

\* a step in which a handler answers a request
Handled == req = NoRequest /\ req' # NoRequest

\* C1: once the API has started with db None, db stays None whatever happens
\* to the store file, and every data endpoint answers 500 with the error
\* 'Database not available'.
C1_UnavailableUntilRestart ==
    [][ (api = "up" /\ db = "None") =>
            /\ db' = "None"
            /\ (Handled /\ req'.endpoint \in DataEndpoints) =>
                   /\ resp'.status = 500
                   /\ resp'.body = [error |-> <<"Database not available">>] ]_vars

\* the API started without a store, the importer then built one with a
\* courses table, and GET /courses is answered 500
C1_Witness ==
    /\ api = "up"
    /\ db = "None"
    /\ store.exists
    /\ Courses \in DOMAIN store.tables
    /\ store.tables[Courses].rows # << >>
    /\ req.endpoint = "/courses"
    /\ resp.status = 500

\* C2: a request leaves the tables and indexes of the store and the db
\* object as they were, and the same request handled again on the store it
\* left gets the same response.
C2_RequestsReadOnly ==
    [][ Handled =>
            /\ store'.tables = store.tables
            /\ store'.indexes = store.indexes
            /\ db' = db
            /\ Respond(store'.tables, req') = resp' ]_vars

\* a request answered with rows read from the store
C2_Witness ==
    /\ req.endpoint = "/courses"
    /\ resp.status = 200
    /\ resp.body.count >= 2
    /\ store.tables[Courses].rows # << >>

ListEndpoints == {"/courses", "/instructors", "/rooms", "/timeslots"}

\* the documented order of the filters of a list endpoint, each with the
\* query it selects and the parameters that query binds
Filters(r) ==
    IF r.endpoint = "/courses"
    THEN << [value |-> r.args.search, name |-> "search_courses", int |-> FALSE,
             params |-> << <<"%">> \o r.args.search \o <<"%">>,
                           <<"%">> \o r.args.search \o <<"%">> >>],
            [value |-> r.args.type, name |-> "get_courses_by_type", int |-> FALSE,
             params |-> <<r.args.type>>],
            [value |-> r.args.semester, name |-> "get_courses_by_semester", int |-> TRUE,
             params |-> << >>],
            [value |-> r.args.specialization, name |-> "get_courses_by_specialization",
             int |-> FALSE, params |-> <<r.args.specialization>>] >>
    ELSE IF r.endpoint = "/instructors"
    THEN << [value |-> r.args.course, name |-> "get_instructors_for_course", int |-> FALSE,
             params |-> <<r.args.course>>],
            [value |-> r.args.role, name |-> "get_instructors_by_role", int |-> FALSE,
             params |-> <<r.args.role>>] >>
    ELSE IF r.endpoint = "/rooms"
    THEN << [value |-> r.args.lab_type, name |-> "get_lab_rooms_by_type", int |-> FALSE,
             params |-> <<r.args.lab_type>>],
            [value |-> r.args.min_capacity, name |-> "get_rooms_by_capacity", int |-> TRUE,
             params |-> << >>],
            [value |-> r.args.type, name |-> "get_rooms_by_type", int |-> FALSE,
             params |-> <<r.args.type>>] >>
    ELSE << [value |-> r.args.day, name |-> "get_timeslots_by_day", int |-> FALSE,
             params |-> <<r.args.day>>] >>

GetAll(r) ==
    IF r.endpoint = "/courses" THEN "get_all_courses"
    ELSE IF r.endpoint = "/instructors" THEN "get_all_instructors"
    ELSE IF r.endpoint = "/rooms" THEN "get_all_rooms"
    ELSE "get_all_timeslots"

\* the filters of r whose parameter counts as given
Given(r, Counts(_)) == SelectSeq(Filters(r), LAMBDA f : Counts(f.value))

\* C3 as stated: exactly one query runs, that of the first parameter supplied
\* (with any value), and the 'get all' query runs exactly when none is
\* supplied.
C3_FirstSupplied ==
    (req.endpoint \in ListEndpoints /\ db # "None") =>
        LET given == Given(req, LAMBDA v : v # None)
        IN  /\ Len(resp.queries) = 1
            /\ resp.queries[1].name =
                   IF given = << >> THEN GetAll(req) ELSE given[1].name

\* digits only, with an optional sign: the values int() converts
Numeric(v) ==
    LET body == IF v # << >> /\ v[1] \in {"+", "-"} THEN Tail(v) ELSE v
    IN  /\ body # << >>
        /\ \A i \in 1..Len(body) :
               body[i] \in {"0", "1", "2", "3", "4", "5", "6", "7", "8", "9"}

\* C3 amended: the filters are tried in the documented order and the first
\* parameter supplied with a non-empty value wins (a parameter supplied empty
\* counts as not supplied).  Exactly one query runs, the one of that
\* parameter, bound to its value, the later parameters ignored; 'get all'
\* runs exactly when no parameter has a non-empty value; and when the winning
\* parameter is semester or min_capacity and is no integer, no query runs and
\* the answer is 500.
C3_FirstNonEmpty ==
    (req.endpoint \in ListEndpoints /\ db # "None") =>
        LET given == Given(req, LAMBDA v : v # None /\ v # << >>)
        IN  IF given = << >>
            THEN resp.queries = <<[name |-> GetAll(req), params |-> << >>]>>
            ELSE IF given[1].int
            THEN IF Numeric(given[1].value)
                 THEN /\ Len(resp.queries) = 1
                      /\ resp.queries[1].name = given[1].name
                      /\ Len(resp.queries[1].params) = 1
                      /\ Numeric(resp.queries[1].params[1])
                 ELSE resp.queries = << >> /\ resp.status = 500
            ELSE resp.queries = <<[name |-> given[1].name, params |-> given[1].params]>>

\* GET /courses?search=&type=Lab&semester=x&specialization=AI runs the query by type
C3_Witness ==
    /\ req.endpoint = "/courses"
    /\ db # "None"
    /\ req.args.search = << >>
    /\ req.args.type = Lab
    /\ req.args.semester = <<"x">>
    /\ req.args.specialization = AI
    /\ resp.queries = <<[name |-> "get_courses_by_type", params |-> <<Lab>>]>>

\* the records of a table, in the order inserted
Records(t) == [k \in 1..Len(store.tables[t].rows) |->
                 [c \in Range(store.tables[t].cols) |->
                     store.tables[t].rows[k][CHOOSE i \in 1..Len(store.tables[t].cols) :
                                                 store.tables[t].cols[i] = c]]]

HasColumns(t, cols) ==
    t \in DOMAIN store.tables /\ cols \subseteq Range(store.tables[t].cols)

\* C4: with the store available and its courses table in place,
\* GET /courses/{id} answers 200 with success true and the one record of the
\* store whose courseId is id (the first, should the table repeat the id) when
\* the table has the id, and 404 with the body {error: 'Course not found'}
\* and no data field when it has not.
C4_CourseById ==
    [][ (Handled /\ req'.endpoint = "/courses/{id}" /\ db # "None"
              /\ HasColumns(Courses, {<<"courseId">>})) =>
            LET found == SelectSeq(Records(Courses),
                                   LAMBDA c : c[<<"courseId">>] = req'.id)
            IN  IF found # << >>
                THEN /\ resp'.status = 200
                     /\ resp'.body = [success |-> TRUE, data |-> found[1]]
                ELSE /\ resp'.status = 404
                     /\ resp'.body = [error |-> <<"Course not found">>]
                     /\ "data" \notin DOMAIN resp'.body ]_vars

\* GET /courses/CS2 answered 200 with the record of CS2
C4_Witness ==
    /\ req.endpoint = "/courses/{id}"
    /\ req.id = CS2
    /\ resp.status = 200
    /\ resp.body.data[<<"courseId">>] = CS2
    /\ resp.body.data[<<"type">>] = Lab

SlotColumns == { <<"qualifiedCourses", "_", d, "_">> : d \in {"0", "1", "2", "3", "4", "5"} }

Times(rows, r) == Cardinality({k \in 1..Len(rows) : rows[k] = r})

\* a request for the instructors of a course, handled on a store with its
\* instructors table
ForCourse ==
    /\ Handled
    /\ req'.endpoint = "/instructors"
    /\ db # "None"
    /\ req'.args.course # None
    /\ HasColumns(Instructors, SlotColumns \cup {<<"instructorName">>})

\* the answer holds the instructor records that have the course in one of
\* their 6 slots and no other: each such record of the table is in the result
\* as often as it is in the table (once per row, however many of its slots
\* hold the course), and the count is that of the records
QualifiedOnly ==
    LET all == Records(Instructors)
        has(r) == \E col \in SlotColumns : r[col] = req'.args.course
    IN  /\ resp'.status = 200
        /\ resp'.body.success
        /\ resp'.body.count = Len(resp'.body.data)
        /\ \A r \in Range(resp'.body.data) : r \in Range(all) /\ has(r)
        /\ \A r \in Range(all) :
               Times(resp'.body.data, r) = IF has(r) THEN Times(all, r) ELSE 0

\* C5 as stated: GET /instructors?course=C, for every C, answers with exactly
\* the instructor rows that have C in one of their 6 slots, each once.
C5_AnyCourse == [][ ForCourse => QualifiedOnly ]_vars

\* C5 amended: GET /instructors?course=C, for every C that is not empty,
\* answers with exactly the instructor rows that have C in one of their 6
\* slots, each row once however many of its slots hold C.  (An empty C counts
\* as no course parameter: the role filter or 'get all' answers.)
C5_InstructorsForCourse ==
    [][ (ForCourse /\ req'.args.course # << >>) => QualifiedOnly ]_vars

\* GET /instructors?course=CS1 answered with Al, who has CS1 in two slots,
\* and Bo, who has it in the last
C5_Witness ==
    /\ req.endpoint = "/instructors"
    /\ req.args.course = CS1
    /\ resp.status = 200
    /\ resp.body.count = 2
    /\ resp.body.data[1][<<"instructorName">>] = Al
    /\ resp.body.data[1][<<"qualifiedCourses", "_", "1", "_">>] = CS1
    /\ resp.body.data[2][<<"qualifiedCourses", "_", "5", "_">>] = CS1

\* the winning parameter of a request, << >> when there is none
Winner(r) ==
    LET given == Given(r, LAMBDA v : v # None /\ v # << >>)
    IN  IF given = << >> THEN << >> ELSE <<given[1]>>

\* the table a list endpoint reads
TableOf(r) ==
    IF r.endpoint = "/courses" THEN Courses
    ELSE IF r.endpoint = "/instructors" THEN Instructors
    ELSE IF r.endpoint = "/rooms" THEN Rooms
    ELSE Timeslots

\* C10: every request is answered with status 200, 404 or 500 and a JSON
\* body: success and data on 200, an error message otherwise (status and
\* message for /health).  A semester on /courses or a min_capacity on /rooms
\* that wins and is no integer is answered 500 with the message of the
\* conversion error, and a query on a table the store lacks is answered 500
\* with the message of the store.
C10_ErrorsCaught ==
    [][ Handled =>
            /\ resp'.status \in {200, 404, 500}
            /\ resp'.status = 200 =>
                   "success" \in DOMAIN resp'.body \/ "status" \in DOMAIN resp'.body
            /\ resp'.status # 200 =>
                   \/ DOMAIN resp'.body = {"error"} /\ resp'.body.error # << >>
                   \/ /\ req'.endpoint = "/health"
                      /\ DOMAIN resp'.body = {"status", "message"}
            /\ (req'.endpoint \in {"/courses", "/rooms"} /\ db # "None"
                    /\ Winner(req') # << >>) =>
                   LET w == Winner(req')[1]
                   IN  (w.int /\ ~Numeric(w.value)) =>
                           /\ resp'.status = 500
                           /\ resp'.body =
                                  [error |-> <<"invalid literal for int() with base 10: '">>
                                                 \o w.value \o <<"'">>]
            /\ (req'.endpoint \in ListEndpoints /\ db # "None"
                    /\ TableOf(req') \notin DOMAIN store.tables
                    /\ (Winner(req') = << >> \/ ~Winner(req')[1].int)) =>
                   /\ resp'.status = 500
                   /\ resp'.body = [error |-> <<"no such table: ">> \o TableOf(req')] ]_vars

\* GET /rooms?min_capacity=x answered 500
C10_Witness ==
    /\ req.endpoint = "/rooms"
    /\ db # "None"
    /\ req.args.lab_type = << >>
    /\ req.args.min_capacity = <<"x">>
    /\ resp.status = 500
    /\ resp.queries = << >>

\* the tables /health counts, in the order it counts them
Counted == << <<"courses">>, <<"instructors">>, <<"rooms">>, <<"timeslots">> >>

\* the tables among them that the store lacks
Lacking == SelectSeq(Counted, LAMBDA t : t \notin DOMAIN store.tables)

\* C11: GET /health answers 500 with status 'error' and the message
\* 'Database not available. Please run csv_to_sqlite.py first.' whenever db is
\* None; with db in place it answers 200 with status 'healthy' and the row
\* count of each of the four tables exactly when all four count queries
\* succeed, and 500 with status 'error' and a message of the form
\* 'Database error: <detail>', which differs from the first, when one fails.
C11_HealthReflectsStore ==
    [][ (Handled /\ req'.endpoint = "/health") =>
            LET missing == <<"Database not available. Please run csv_to_sqlite.py first.">>
            IN  IF db = "None"
                THEN /\ resp'.status = 500
                     /\ resp'.body = [status |-> "error", message |-> missing]
                ELSE IF Lacking = << >>
                THEN /\ resp'.status = 200
                     /\ resp'.body.status = "healthy"
                     /\ resp'.body.stats =
                            [k \in 1..4 |-> <<Counted[k], Len(store.tables[Counted[k]].rows)>>]
                ELSE /\ resp'.status = 500
                     /\ resp'.body.status = "error"
                     /\ resp'.body.message =
                            <<"Database error: ", "no such table: ">> \o Lacking[1]
                     /\ resp'.body.message # missing
                     /\ "stats" \notin DOMAIN resp'.body ]_vars

\* the API started without a store, the importer has since built all four
\* tables, and /health still answers error
C11_Witness ==
    /\ api = "up"
    /\ db = "None"
    /\ Range(Counted) \subseteq DOMAIN store.tables
    /\ store.tables[Courses].rows # << >>
    /\ req.endpoint = "/health"
    /\ resp.status = 500
    /\ resp.body.status = "error"

CourseFields ==
    {<<"courseId">>, <<"courseName">>, <<"type">>, <<"semester">>, <<"specialization">>}

InstructorFields == {<<"instructorName">>, <<"role">>}

\* the row of the result for course c and instructor i
Paired(c, i) ==
    [col \in CourseFields \cup InstructorFields |->
        IF col \in CourseFields THEN c[col] ELSE i[col]]

\* the row of the result for a course without instructor
Alone(c) ==
    [col \in CourseFields \cup InstructorFields |->
        IF col \in CourseFields THEN c[col] ELSE Null]

Teaches(i, c) == \E col \in SlotColumns : i[col] = c[<<"courseId">>]

\* C12: on a store with its courses and instructors tables,
\* GET /courses-with-instructors answers with the deduplicated outer join:
\* the rows of the result are the rows of the (course, instructor) pairs in
\* which the course's id is in one of the instructor's 6 slots, and one row
\* with null instructorName and role for each course nobody is qualified for;
\* so every course is in a row, no row pairs a course with an instructor not
\* qualified for it, and no two rows of the result are equal.
C12_DeduplicatedOuterJoin ==
    [][ (Handled /\ req'.endpoint = "/courses-with-instructors" /\ db # "None"
              /\ HasColumns(Courses, CourseFields)
              /\ HasColumns(Instructors, SlotColumns \cup InstructorFields)) =>
            LET cs   == Range(Records(Courses))
                is   == Range(Records(Instructors))
                data == resp'.body.data
            IN  /\ resp'.status = 200
                /\ resp'.body.count = Len(data)
                /\ Range(data) =
                       { Paired(p[1], p[2]) : p \in {q \in cs \X is : Teaches(q[2], q[1])} }
                         \cup { Alone(c) : c \in {d \in cs : \A i \in is : ~Teaches(i, d)} }
                /\ \A c \in cs : \E k \in 1..Len(data) :
                       \A col \in CourseFields : data[k][col] = c[col]
                /\ \A j, k \in 1..Len(data) : j # k => data[j] # data[k] ]_vars

\* the answer on the four shipped files in small: Al, who has CS1 in two
\* slots, is paired with it once, and CS3, which nobody teaches, has its row
\* of nulls
C12_Witness ==
    /\ req.endpoint = "/courses-with-instructors"
    /\ resp.status = 200
    /\ resp.body.count = 5
    /\ Cardinality({k \in 1..5 : /\ resp.body.data[k][<<"courseId">>] = CS1
                                 /\ resp.body.data[k][<<"instructorName">>] = Al}) = 1
    /\ \E k \in 1..5 : /\ resp.body.data[k][<<"courseId">>] = CS3
                       /\ resp.body.data[k][<<"instructorName">>] = Null
                       /\ resp.body.data[k][<<"role">>] = Null

====
